---- MODULE Spec2Model ----
(***************************************************************************)
(* Model of analyzer/main.py: the POST /analyze handler.                   *)
(*                                                                         *)
(* One request runs through the handler's stages in program order: track   *)
(* lookup, file download, audio decode, feature extraction, note           *)
(* classification and record assembly, insert into the feedback table.     *)
(* The try/except around the body turns every failure into a response.     *)
(*                                                                         *)
(* Amplitudes are fixed-point integers in thousandths (1000 is 1.0), so    *)
(* the thresholds 0.01 and 0.9 are 10 and 900.  The spectral contrast mean *)
(* is an integer in its own unit (threshold 10).                           *)
(***************************************************************************)
EXTENDS Integers, Sequences, FiniteSets

VARIABLES pc, req, track, y, sr, rms, peak, stereo_width, balance,
          notes, fb, feedback, exc, response, trace, result

vars == <<pc, req, track, y, sr, rms, peak, stereo_width, balance,
          notes, fb, feedback, exc, response, trace, result>>

(* ---------------------------- bounds ----------------------------------- *)

\* frames per channel, channels, and samples in the whole buffer
MaxLen == 2
MaxChannels == 2
MaxSamples == 4

(* ------------------------ input domains -------------------------------- *)

TrackIds == {"t1", "t2"}

\* Sample amplitudes in thousandths: -1.0, 0, 0.454, 0.9.  A clip holding
\* the single sample 454 has a frame RMS of exactly 10 (0.01).
SampleValues == {-1000, 0, 454, 900}

\* Sample rates of the decoded file (Hz): one below 4000, one ordinary.
SampleRates == {3000, 44100}

\* Values the mean spectral contrast of a non-silent signal may take.
WidthValues == {0, 10, 15}

\* Mean band magnitudes (low, mid, high) a non-silent signal may have where
\* the band has bins: a bass-heavy and a treble-heavy spectrum.
Spectra == {[low |-> 2, mid |-> 1, high |-> 1], [low |-> 1, mid |-> 1, high |-> 2]}

\* Channel-major buffers librosa.load(mono=False) can return: one or more
\* channels of one common length, possibly zero frames.
Channel(n) == [1..n -> SampleValues]
Shapes == {s \in (1..MaxChannels) \X (0..MaxLen) : s[1] * s[2] <= MaxSamples}
Buffers == UNION {[1..s[1] -> Channel(s[2])] : s \in Shapes}

(* ----------------------- numeric helpers ------------------------------- *)

Abs(x) == IF x < 0 THEN -x ELSE x

Min(a, b) == IF a < b THEN a ELSE b

RECURSIVE SumSeq(_)
SumSeq(s) == IF s = <<>> THEN 0 ELSE Head(s) + SumSeq(Tail(s))

RECURSIVE MaxSeq(_)
MaxSeq(s) == IF Len(s) = 1 THEN Head(s)
             ELSE LET m == MaxSeq(Tail(s)) IN IF Head(s) > m THEN Head(s) ELSE m

RECURSIVE SqrtSearch(_, _, _)
SqrtSearch(n, lo, hi) ==
    IF lo >= hi THEN lo
    ELSE LET mid == (lo + hi + 1) \div 2
         IN IF mid * mid <= n THEN SqrtSearch(n, mid, hi)
            ELSE SqrtSearch(n, lo, mid - 1)

\* floor of the square root
Sqrt(n) == SqrtSearch(n, 0, n)

RECURSIVE Flatten(_)
Flatten(b) == IF b = <<>> THEN <<>> ELSE Head(b) \o Flatten(Tail(b))

NumChannels(b) == Len(b)
NumFrames(b) == Len(b[1])

(* --------------------- feature computations ---------------------------- *)

\* Defaults of librosa.feature.rms, librosa.stft and fft_frequencies.
FrameLength == 2048

\* y if y.ndim == 1 else y.mean(axis=0)
Mono(b) ==
    IF NumChannels(b) = 1 THEN b[1]
    ELSE [i \in 1..NumFrames(b) |->
            SumSeq([c \in 1..NumChannels(b) |-> b[c][i]]) \div NumChannels(b)]

\* float(librosa.feature.rms(y=mono).mean()) with the library defaults:
\* frames of FrameLength samples, centred and zero-padded, one frame every
\* 512 samples.  A clip shorter than that gives one frame holding
\* the whole clip, so the mean over frames is that frame's RMS (floored).
Rms(b) ==
    LET m == Mono(b)
    IN Sqrt(SumSeq([i \in 1..Len(m) |-> m[i] * m[i]]) \div FrameLength)

\* float(max(abs(y.flatten()))): every sample of every channel.
Peak(b) == MaxSeq([i \in 1..Len(Flatten(b)) |-> Abs(Flatten(b)[i])])

IsSilent(b) == \A i \in 1..Len(Mono(b)) : Mono(b)[i] = 0

\* librosa.feature.spectral_contrast: the sub-band edges are 200 * 2^k Hz up
\* to 6400 Hz, and the library rejects a sample rate whose Nyquist frequency
\* does not exceed them.  For such a rate the call may raise; the model
\* also keeps the run in which it returns.
ContrastRaises(rate) == 2 * 6400 >= rate

\* float(spect_contrast.mean()), w being the library's value for the signal
StereoWidth(b, w) == IF IsSilent(b) THEN 0 ELSE w

\* freqs = librosa.fft_frequencies(sr=sr): bin k is at k * sr / FrameLength
\* for k in 0 .. FrameLength / 2.  Number of bins with frequency < f.
NumBins == FrameLength \div 2 + 1

BinsBelow(f, rate) == Min(NumBins, (f * FrameLength - 1) \div rate + 1)

LowBins(rate) == BinsBelow(200, rate)
MidBins(rate) == BinsBelow(2000, rate) - BinsBelow(200, rate)
HighBins(rate) == NumBins - BinsBelow(2000, rate)

\* numpy's mean of an empty selection is nan (a warning, not an exception).
NaN == -1

\* float(S[idx].mean()) for a band of `bins` rows of the magnitude spectrum,
\* level being the mean magnitude of the signal's spectrum over those rows.
BandMean(b, bins, level) ==
    IF bins = 0 THEN NaN
    ELSE IF IsSilent(b) THEN 0
    ELSE level

\* the dict balance of lines 85-89
Balance(b, rate, spectrum) ==
    [low |-> BandMean(b, LowBins(rate), spectrum.low),
     mid |-> BandMean(b, MidBins(rate), spectrum.mid),
     high |-> BandMean(b, HighBins(rate), spectrum.high)]

(* ------------------------- classification ------------------------------ *)

SilenceNote == "Traccia troppo silenziosa."
ClippingNote == "Attenzione al clipping."
NarrowNote == "Campo stereo stretto."
OkNote == "Mix in media ok."

SilenceThreshold == 10
ClippingThreshold == 900
WidthThreshold == 10

\* Classify with the silence rule non-strict.
Classify_le(r, p, w) ==
    LET n1 == IF r <= SilenceThreshold THEN <<SilenceNote>> ELSE <<>>
        n2 == IF p > ClippingThreshold THEN n1 \o <<ClippingNote>> ELSE n1
        n3 == IF w < WidthThreshold THEN n2 \o <<NarrowNote>> ELSE n2
    IN IF n3 = <<>> THEN <<OkNote>> ELSE n3

\* Classify with the fallback appended whenever the narrow rule is silent.
Classify_fallback(r, p, w) ==
    LET n1 == IF r < SilenceThreshold THEN <<SilenceNote>> ELSE <<>>
        n2 == IF p > ClippingThreshold THEN n1 \o <<ClippingNote>> ELSE n1
    IN IF w < WidthThreshold THEN n2 \o <<NarrowNote>> ELSE n2 \o <<OkNote>>

\* lines 91-99: three independent ifs, then the fallback.
Classify(r, p, w) ==
    LET n1 == IF r < SilenceThreshold THEN <<SilenceNote>> ELSE <<>>
        n2 == IF p > ClippingThreshold THEN n1 \o <<ClippingNote>> ELSE n1
        n3 == IF w < WidthThreshold THEN n2 \o <<NarrowNote>> ELSE n2
    IN IF n3 = <<>> THEN <<OkNote>> ELSE n3

\* " ".join(notes), kept as the sequence of joined pieces.
RECURSIVE Join(_)
Join(ns) ==
    IF Len(ns) <= 1 THEN ns
    ELSE <<Head(ns), " ">> \o Join(Tail(ns))

\* Assemble built before the notes are known.
Assemble_nonotes(id, r, p, w, bal, ns) ==
    [track_id |-> id, loudness_db |-> r, peak_db |-> p, stereo_width |-> w,
     freq_balance |-> bal, ai_notes |-> <<>>]

\* the dict fb of lines 101-108
Assemble(id, r, p, w, bal, ns) ==
    [track_id |-> id, loudness_db |-> r, peak_db |-> p, stereo_width |-> w,
     freq_balance |-> bal, ai_notes |-> Join(ns)]

(* --------------------------- responses --------------------------------- *)

NoBalance == [low |-> 0, mid |-> 0, high |-> 0]
NoRecord == Assemble("", 0, 0, 0, NoBalance, <<>>)

NoResponse == [kind |-> "none", status |-> 0, detail |-> "", feedback |-> NoRecord]

NoException == [type |-> "none", status |-> 0, detail |-> ""]

HTTPException(code, msg) == [type |-> "HTTPException", status |-> code, detail |-> msg]

\* an exception of another class, with its message str(e)
Error(class, msg) == [type |-> class, status |-> 0, detail |-> msg]

\* Except without the "except HTTPException: raise" clause.
Except_all500(e) ==
    [kind |-> "JSONResponse", status |-> 500, detail |-> e.detail,
     feedback |-> NoRecord]

\* Except with a fixed detail instead of str(e).
Except_nodetail(e) ==
    IF e.type = "HTTPException"
    THEN [kind |-> "HTTPException", status |-> e.status, detail |-> e.detail,
          feedback |-> NoRecord]
    ELSE [kind |-> "JSONResponse", status |-> 500, detail |-> "Internal Server Error",
          feedback |-> NoRecord]

\* lines 117-122: an HTTPException is re-raised to the framework, anything
\* else becomes a JSONResponse with status 500 and detail str(e).
Except(e) ==
    IF e.type = "HTTPException"
    THEN [kind |-> "HTTPException", status |-> e.status, detail |-> e.detail,
          feedback |-> NoRecord]
    ELSE [kind |-> "JSONResponse", status |-> 500, detail |-> e.detail,
          feedback |-> NoRecord]

\* line 115: {"status": "analyzed", "feedback": fb}
Success(record) ==
    [kind |-> "return", status |-> 200, detail |-> "analyzed", feedback |-> record]

Stages == {"lookup", "download", "decode", "extract", "insert"}

(* ----------------------------- state ----------------------------------- *)

\* Locals of the handler hold a default value until the line that assigns
\* them runs; trace lists the stages that have run, result their outcomes.
Init ==
    /\ pc = "lookup"
    /\ req \in TrackIds
    /\ track = ""
    /\ y = <<>>
    /\ sr = 0
    /\ rms = 0
    /\ peak = 0
    /\ stereo_width = 0
    /\ balance = NoBalance
    /\ notes = <<>>
    /\ fb = NoRecord
    /\ feedback = <<>>
    /\ exc = NoException
    /\ response = NoResponse
    /\ trace = <<>>
    /\ result = [s \in Stages |-> "pending"]

\* Raise that leaves the handler at the failing stage, which runs again.
Raise_retry(stage, outcome, e) ==
    /\ exc' = e
    /\ response' = Except(e)
    /\ result' = [result EXCEPT ![stage] = outcome]
    /\ pc' = pc

\* The exception leaves the try body: the handler ends with Except(e).
Raise(stage, outcome, e) ==
    /\ exc' = e
    /\ response' = Except(e)
    /\ result' = [result EXCEPT ![stage] = outcome]
    /\ pc' = "done"

Proceed(stage, next) ==
    /\ result' = [result EXCEPT ![stage] = "ok"]
    /\ pc' = next
    /\ UNCHANGED <<exc, response>>

(* ---------------------------- actions ---------------------------------- *)

\* lines 55-59: select the track row; resp.error or empty data is a 404.
LookupOutcomes == {"ok", "error", "empty", "raise"}

Lookup(outcome) ==
    /\ pc = "lookup"
    /\ trace' = Append(trace, "lookup")
    /\ CASE outcome = "ok" ->
              /\ track' = "file_url"
              /\ Proceed("lookup", "download")
         [] outcome \in {"error", "empty"} ->
              /\ Raise("lookup", outcome, HTTPException(404, "Track non trovata"))
              /\ UNCHANGED track
         [] outcome = "raise" ->
              /\ Raise("lookup", outcome, Error("Exception", "lookup failed"))
              /\ UNCHANGED track
    /\ UNCHANGED <<req, y, sr, rms, peak, stereo_width, balance, notes, fb, feedback>>

\* lines 62-67: requests.get and raise_for_status.
DownloadOutcomes == {"ok", "raise"}

Download(outcome) ==
    /\ pc = "download"
    /\ trace' = Append(trace, "download")
    /\ IF outcome = "ok"
       THEN Proceed("download", "decode")
       ELSE Raise("download", outcome, Error("RequestException", "download failed"))
    /\ UNCHANGED <<req, track, y, sr, rms, peak, stereo_width, balance, notes, fb, feedback>>

\* line 70: librosa.load returns the buffer and its sample rate, or raises.
DecodeOk ==
    /\ pc = "decode"
    /\ trace' = Append(trace, "decode")
    /\ \E b \in Buffers, rate \in SampleRates :
          /\ y' = b
          /\ sr' = rate
    /\ Proceed("decode", "extract")
    /\ UNCHANGED <<req, track, rms, peak, stereo_width, balance, notes, fb, feedback>>

DecodeFail ==
    /\ pc = "decode"
    /\ trace' = Append(trace, "decode")
    /\ Raise("decode", "raise", Error("Exception", "decode failed"))
    /\ UNCHANGED <<req, track, y, sr, rms, peak, stereo_width, balance, notes, fb, feedback>>

\* lines 73-74 on a buffer without frames: max() of an empty sequence
\* raises ValueError (whether or not the RMS call before it raised too).
ExtractEmpty ==
    /\ pc = "extract"
    /\ NumFrames(y) = 0
    /\ trace' = Append(trace, "extract")
    /\ Raise("extract", "raise", Error("ValueError", "max() arg is an empty sequence"))
    /\ UNCHANGED <<req, track, y, sr, rms, peak, stereo_width, balance, notes, fb, feedback>>

\* lines 73-77 when spectral_contrast rejects the sample rate.
ExtractContrastFail ==
    /\ pc = "extract"
    /\ NumFrames(y) > 0
    /\ ContrastRaises(sr)
    /\ trace' = Append(trace, "extract")
    /\ rms' = Rms(y)
    /\ peak' = Peak(y)
    /\ Raise("extract", "raise", Error("ParameterError", "Frequency band exceeds Nyquist"))
    /\ UNCHANGED <<req, track, y, sr, stereo_width, balance, notes, fb, feedback>>

\* lines 73-108: features, notes and the record.
Extract(w, spectrum) ==
    /\ pc = "extract"
    /\ NumFrames(y) > 0
    /\ trace' = Append(trace, "extract")
    /\ rms' = Rms(y)
    /\ peak' = Peak(y)
    /\ stereo_width' = StereoWidth(y, w)
    /\ balance' = Balance(y, sr, spectrum)
    /\ notes' = Classify(rms', peak', stereo_width')
    /\ fb' = Assemble(req, rms', peak', stereo_width', balance', notes')
    /\ Proceed("extract", "insert")
    /\ UNCHANGED <<req, track, y, sr, feedback>>

\* lines 111-115: insert fb; an insert error is a 500 HTTPException.
InsertOutcomes == {"ok", "error", "raise"}

Insert(outcome) ==
    /\ pc = "insert"
    /\ trace' = Append(trace, "insert")
    /\ CASE outcome = "ok" ->
              /\ feedback' = Append(feedback, fb)
              /\ result' = [result EXCEPT !["insert"] = "ok"]
              /\ response' = Success(fb)
              /\ UNCHANGED exc
              /\ pc' = "done"
         [] outcome = "error" ->
              /\ Raise("insert", outcome, HTTPException(500, "Errore salvataggio feedback"))
              /\ UNCHANGED feedback
         [] outcome = "raise" ->
              /\ Raise("insert", outcome, Error("Exception", "insert failed"))
              /\ UNCHANGED feedback
    /\ UNCHANGED <<req, track, y, sr, rms, peak, stereo_width, balance, notes, fb>>

Next ==
    \/ \E o \in LookupOutcomes : Lookup(o)
    \/ \E o \in DownloadOutcomes : Download(o)
    \/ DecodeOk
    \/ DecodeFail
    \/ ExtractEmpty
    \/ ExtractContrastFail
    \/ \E w \in WidthValues, sp \in Spectra : Extract(w, sp)
    \/ \E o \in InsertOutcomes : Insert(o)

Spec == Init /\ [][Next]_vars

(* --------------------------- properties -------------------------------- *)

Ran(stage) == \E i \in 1..Len(trace) : trace[i] = stage

Has(ns, n) == \E i \in 1..Len(ns) : ns[i] = n

Failure(outcome) == outcome \notin {"pending", "ok"}

Failed == \E s \in Stages : Failure(result[s])

Extracted == result["extract"] = "ok"

\* position of a rule's note in the table Silence, Clipping, Narrow field
Rank(n) == CASE n = SilenceNote -> 1
             [] n = ClippingNote -> 2
             [] n = NarrowNote -> 3
             [] OTHER -> 4

\* C1: once the features are extracted, the Silence note is present iff
\* loudness < 0.01, the Clipping note iff peak > 0.9, the Narrow-field note
\* iff spread < 10 (each rule on its own, strict comparisons), and the notes
\* appear in the order Silence, Clipping, Narrow field.
C1_RulesIndependentAndOrdered ==
    Extracted =>
        /\ Has(notes, SilenceNote) <=> rms < 10
        /\ Has(notes, ClippingNote) <=> peak > 900
        /\ Has(notes, NarrowNote) <=> stereo_width < 10
        /\ \A i, j \in 1..Len(notes) : i < j => Rank(notes[i]) < Rank(notes[j])

\* all three rules fire on one feature set
C1_Witness ==
    /\ Extracted
    /\ notes = <<SilenceNote, ClippingNote, NarrowNote>>

\* C2: the notes list is never empty after classification; the ok note is
\* there iff no rule fires, and then it is the only note.
C2_NotesNeverEmpty ==
    Extracted =>
        /\ notes # <<>>
        /\ Has(notes, OkNote) <=>
              ~(rms < SilenceThreshold \/ peak > ClippingThreshold
                  \/ stereo_width < WidthThreshold)
        /\ Has(notes, OkNote) => notes = <<OkNote>>

\* no rule fires, with loudness and spread exactly on their thresholds
C2_Witness ==
    /\ Extracted
    /\ rms = SilenceThreshold
    /\ stereo_width = WidthThreshold
    /\ notes = <<OkNote>>

\* C3: a lookup that returns an error or no data ends the request with a
\* 404 HTTPException; no download, decode, extraction or insert has run.
C3_NotFoundStopsPipeline ==
    result["lookup"] \in {"error", "empty"} =>
        /\ pc = "done"
        /\ response.kind = "HTTPException"
        /\ response.status = 404
        /\ trace = <<"lookup">>
        /\ feedback = <<>>

C3_Witness ==
    /\ result["lookup"] = "empty"
    /\ response.status = 404

\* C4: the record handed to the insert has every field computed; a success
\* response carries that record and is returned only after an insert without
\* error; a failure at any stage leaves no success response.
C4_NoPartialRecord ==
    /\ Ran("insert") =>
          /\ Extracted
          /\ notes # <<>>
          /\ fb = [track_id |-> req, loudness_db |-> rms, peak_db |-> peak,
                   stereo_width |-> stereo_width, freq_balance |-> balance,
                   ai_notes |-> Join(notes)]
    /\ response.kind = "return" =>
          /\ result["insert"] = "ok"
          /\ response.feedback = fb
          /\ feedback = <<fb>>
    /\ Failed => response.kind \in {"HTTPException", "JSONResponse"}
    /\ feedback # <<>> => result["insert"] = "ok"

\* a record with two joined notes was inserted and returned
C4_Witness ==
    /\ response.kind = "return"
    /\ Len(notes) = 2
    /\ feedback = <<fb>>

Order == <<"lookup", "download", "decode", "insert">>

IsCollaborator(stage) == stage # "extract"

IsPrefix(s, t) == Len(s) <= Len(t) /\ \A i \in 1..Len(s) : s[i] = t[i]

\* C8: the collaborators are called at most once each, in the order lookup,
\* download, decode, insert; a failed stage is the last thing that ran and
\* the request has ended.
C8_NoRetryStopAtFirstFailure ==
    /\ IsPrefix(SelectSeq(trace, IsCollaborator), Order)
    /\ \A s \in Stages :
          Failure(result[s]) =>
              /\ pc = "done"
              /\ trace[Len(trace)] = s
              /\ \A t \in Stages \ {s} : ~Failure(result[t])

\* the download failed: lookup and download were called, nothing else
C8_Witness ==
    /\ result["download"] = "raise"
    /\ trace = <<"lookup", "download">>
    /\ pc = "done"

\* C10: the handler ends in exactly one of: the success response with the
\* record; an HTTPException re-raised unchanged (404 from the lookup, 500
\* from the insert); a 500 JSON response whose detail is the message of the
\* other exception.  Only an HTTPException escapes.
C10_ThreeOutcomes ==
    /\ pc = "done" <=> response.kind # "none"
    /\ pc = "done" =>
          \/ /\ response.kind = "return"
             /\ response.feedback = fb
             /\ exc = NoException
          \/ /\ response.kind = "HTTPException"
             /\ exc.type = "HTTPException"
             /\ response.status = exc.status
             /\ response.detail = exc.detail
             /\ \/ response.status = 404 /\ result["lookup"] \in {"error", "empty"}
                \/ response.status = 500 /\ result["insert"] = "error"
          \/ /\ response.kind = "JSONResponse"
             /\ response.status = 500
             /\ exc.type \notin {"none", "HTTPException"}
             /\ response.detail = exc.detail

\* a download error (not an HTTPException) became the 500 JSON response
C10_Witness ==
    /\ response.kind = "JSONResponse"
    /\ exc.type = "RequestException"
    /\ response.detail = "download failed"

\* C5: for a multi-channel buffer the peak is the maximum absolute value of
\* the down-mixed channel, the signal the loudness is computed on.
C5_PeakOnDownmix ==
    (Extracted /\ NumChannels(y) > 1) =>
        peak = MaxSeq([i \in 1..NumFrames(y) |-> Abs(Mono(y)[i])])

\* C6: for a non-empty clip whose sample rate leaves the high band without
\* bins, extraction succeeds, the high band is 0 and no band is negative or
\* undefined.
C6_EmptyBandIsZero ==
    (Ran("extract") /\ NumFrames(y) > 0 /\ HighBins(sr) = 0) =>
        /\ Extracted
        /\ balance.high = 0
        /\ balance.low >= 0
        /\ balance.mid >= 0

\* C7: for an all-zero buffer of any length, the empty one included, at a
\* sample rate the spectral contrast accepts, extraction succeeds with
\* loudness 0, peak 0 and the Silence note.
C7_SilentBuffer ==
    (Ran("extract") /\ IsSilent(y) /\ ~ContrastRaises(sr)) =>
        /\ Extracted
        /\ rms = 0
        /\ peak = 0
        /\ Has(notes, SilenceNote)

\* C9: extraction of a buffer with channels but no samples fails with the
\* DecodeMismatch kind, and only such a buffer fails with that kind.
C9_DecodeMismatch ==
    Ran("extract") =>
        (NumFrames(y) = 0 <=> exc.type = "DecodeMismatch")

====
